---- MODULE Spec2Model ----
(***************************************************************************)
(* Model of the instant-search backend: the relational store (users,       *)
(* study_books, questions), the FTS5 index questions_fts with its three    *)
(* triggers, the ownership-scoped repositories and the search strategy.    *)
(*                                                                         *)
(* Every repository method runs one SQLAlchemy transaction (commit on      *)
(* success, rollback on SQLAlchemyError), so each one is one atomic        *)
(* action.  The search strategy opens its own sqlite3 connection and reads *)
(* the committed database only.  rebuild_index is split into the two       *)
(* steps FTS5 takes inside its transaction so that other connections can   *)
(* be interleaved with it.                                                 *)
(***************************************************************************)
EXTENDS Integers, Sequences, FiniteSets, TLC

(* ----------------------------- bounds --------------------------------- *)
MaxQuestions == 2
MaxRebuildRun == 2
\* calls of clear_cache the model follows
MaxClears == 1
\* the latest reading of the clock that stamps created_at
MaxClock == 1
\* typing logs, and learning events, the model stores
MaxLogs == 2

(* ---------------------------- constants ------------------------------- *)
\* if limit <= 0 or limit > 100; Query(50, ge=1, le=100)
MaxLimit == 100
\* limit: int = 50
DefaultLimit == 50
\* q: str = Query(..., min_length=1, max_length=200)
ApiQueryMaxLength == 200
\* SearchQuery.text: Field(..., min_length=1, max_length=500)
SearchQueryMaxLength == 500

(* ----------------------------- domains -------------------------------- *)
Users == {"u1", "u2"}
BookIds == {1, 2}
QuestionIds == 1..MaxQuestions
Titles == {"t1", "t2"}
\* a text is a sequence of words
Texts == {<<"alpha">>, <<"beta">>}
Answers == {<<"gamma">>}
\* a query string, given by its whitespace-separated words (<<>> would be
\* the empty or all-whitespace string)
Queries == {<<"alpha">>, <<"beta">>}
Limits == {1}
\* the queries and limits of the searches whose rows are ranked
RankQueries == {<<"alpha">>, <<"gamma">>, <<"alpha", "gamma">>}
RankLimits == {0, 1, MaxQuestions, MaxLimit + 1}
\* the string a request carries as q: its words, the length of the string
\* once trimmed, and the number of whitespace characters around it
QueryLengths == {1, ApiQueryMaxLength, ApiQueryMaxLength + 1,
                 SearchQueryMaxLength, SearchQueryMaxLength + 1}
ApiQueries ==
    {[words |-> <<>>, chars |-> 0, blanks |-> b] : b \in {0, 1}}
    \cup {[words |-> <<"alpha">>, chars |-> n, blanks |-> 0] : n \in QueryLengths}
    \cup {[words |-> <<"alpha">>, chars |-> 1, blanks |-> 1]}
ApiLimits == {1}
\* the None a get_by_id returns when no row matches
NoEntity == [id |-> 0]
\* the bodies of PUT /study-books/{id} and PUT /questions/{id}: every field
\* is optional
StudyBookUpdateRequests == [title : {{}, {"t2"}}, description : {{}, {"d1"}}]
QuestionUpdateRequests == [question : {{}, {<<"beta">>}}, answer : {{}}]
\* the entities a caller may hand to the repositories' update
StudyBookEntities == [id : BookIds, user_id : Users, title : {"t3"},
                      description : {{}}]
QuestionEntities == [id : QuestionIds, study_book_id : BookIds,
                     question : {<<"beta">>}, answer : Answers]
\* the requests that may be inside get_current_user_id at the same time,
\* each in a thread of the thread pool
Requests == {"r1", "r2"}
\* a request that is not inside get_current_user_id
AuthIdle == [pc |-> "idle", user |-> "u1", found |-> FALSE]
\* the ids uuid4 gives the users that sign up
SignupIds == {"u3", "u4"}
\* the e-mail addresses of signups, character by character
Emails == {<<"c">>, <<" ", "C">>, <<"s">>, <<" ">>}
\* the names of signups
SignupNames == {<<"n">>, <<" ">>}

VARIABLES users, study_books, questions, fts_index, fts_table,
          usedBookIds, usedQuestionIds, rebuild, deleteRequested, last,
          services, lru_problems, lru_languages, load_calls, clear_calls,
          reply, kept, clock,
          user_rows, auth, typing_logs, learning_events

store == <<users, study_books, questions, fts_index>>
ids == <<usedBookIds, usedQuestionIds>>
\* the system problems services of the process, the two lru_cache stores of
\* class CachedSystemProblemsService, the response of the latest call, and
\* a response of get_problems_by_language a caller has kept
\* the rows of tables typing_logs and learning_events
logs == <<typing_logs, learning_events>>
\* the columns of table users beside the id, the requests that are inside
\* get_current_user_id, and the logs
journal == <<user_rows, auth, typing_logs, learning_events>>
cache == <<services, lru_problems, lru_languages, load_calls, clear_calls,
           reply, kept>>
vars == <<users, study_books, questions, fts_index, fts_table, usedBookIds,
          usedQuestionIds, rebuild, deleteRequested, last,
          services, lru_problems, lru_languages, load_calls, clear_calls,
          reply, kept, clock, user_rows, auth, typing_logs, learning_events>>

(* ------------------------- schema and pragmas -------------------------- *)
\* columns of table questions
QuestionsColumns == {"id", "study_book_id", "language", "category",
                     "difficulty", "question", "answer", "created_at",
                     "updated_at"}
\* columns of the virtual table questions_fts, declared with
\* content='questions': FTS5 keeps only the inverted index and reads every
\* column value from the content table, by these column names
FtsColumns == {"question_id", "question", "answer"}
\* reading any column of questions_fts prepares
\*   SELECT T.rowid, T.question_id, T.question, T.answer FROM questions T
\* which SQLite rejects ("no such column: T.question_id") unless every FTS
\* column is a column of the content table
ContentReadable == FtsColumns \subseteq QuestionsColumns

\* PRAGMAs issued by DatabaseConfig.connect on self.database
DatabasePragmas == {"foreign_keys", "journal_mode", "synchronous",
                    "cache_size", "temp_store"}
\* PRAGMAs issued on the connections of self.engine, which SessionLocal
\* (and so every repository) uses: none
SessionPragmas == {}
\* ON DELETE CASCADE is enforced by SQLite only on a connection that has
\* PRAGMA foreign_keys=ON
SessionForeignKeys == "foreign_keys" \in SessionPragmas

\* a statement that names questions_fts can be prepared only while the
\* virtual table exists ("no such table: questions_fts" otherwise)
IndexAvailable == fts_table = "present"

(* ------------------------------ helpers -------------------------------- *)
Max(S) == IF S = {} THEN 0 ELSE CHOOSE m \in S : \A x \in S : x <= m

Min2(a, b) == IF a <= b THEN a ELSE b

Abs(x) == IF x < 0 THEN 0 - x ELSE x

\* a non-integer number, as numerator over a positive denominator
Ratio(n, d) == [num |-> n, den |-> d]
RatioLess(a, b) == a.num * b.den < b.num * a.den
RatioMax(a, b) == IF RatioLess(a, b) THEN b ELSE a

\* the unicode61 tokenizer: the set of words of a text
Tokenize(text) == {text[i] : i \in DOMAIN text}

\* an Optional field of a request or a nullable column: None, or a value
Absent == {}
Given(v) == {v}
ValueOf(o) == CHOOSE v \in o : TRUE

Resp(op, user, arg, status, out) ==
    [op |-> op, user |-> user, arg |-> arg, status |-> status, out |-> out]

\* the one argument the repositories, the authentication service and the
\* search strategy give the exceptions they raise: a formatted message
Message == <<"message">>

\* raise ValidationError(*args): __init__(self, field, value, message) has
\* three required parameters, so a call with fewer raises TypeError
ValidationError(args) == IF Len(args) = 3 THEN "validation_error" ELSE "type_error"

\* raise SearchIndexError(*args): __init__(self, operation, message) has two
\* required parameters, so a call with one raises TypeError
SearchIndexError(args) == IF Len(args) = 2 THEN "index_error" ELSE "type_error"

(* ------------------------------ triggers ------------------------------- *)
\* (mutant) no insert trigger: the row is stored and nothing is indexed
FtsInsertTriggerMissing(idx, new) == [ok |-> TRUE, idx |-> idx]

\* questions_fts_insert: INSERT INTO questions_fts(question_id, question,
\* answer) VALUES (new.id, new.question, new.answer).  No rowid is given, so
\* FTS5 allots the next rowid of its own; the insert only writes the index
\* and reads no column.
FtsInsertTrigger(idx, new) ==
    IF ~IndexAvailable
    THEN [ok |-> FALSE, idx |-> idx]
    ELSE [ok  |-> TRUE,
          idx |-> idx \cup {[rowid       |-> Max({e.rowid : e \in idx}) + 1,
                             question_id |-> new.id,
                             question    |-> new.question,
                             answer      |-> new.answer]}]

\* questions_fts_update: UPDATE questions_fts SET question = new.question,
\* answer = new.answer WHERE question_id = new.id.  The WHERE clause scans
\* questions_fts and reads question_id, so the statement fails unless the
\* content table is readable.
FtsUpdateTrigger(idx, new) ==
    IF ~IndexAvailable \/ ~ContentReadable
    THEN [ok |-> FALSE, idx |-> idx]
    ELSE [ok  |-> TRUE,
          idx |-> {IF e.question_id = new.id
                   THEN [e EXCEPT !.question = new.question,
                                  !.answer = new.answer]
                   ELSE e : e \in idx}]

\* questions_fts_delete: DELETE FROM questions_fts WHERE question_id =
\* old.id; scans questions_fts like the update trigger.
FtsDeleteTrigger(idx, old) ==
    IF ~IndexAvailable \/ ~ContentReadable
    THEN [ok |-> FALSE, idx |-> idx]
    ELSE [ok |-> TRUE, idx |-> {e \in idx : e.question_id # old.id}]

(* ---------------------------- repositories ----------------------------- *)
\* (mutant) the lookup without the user_id filter
StudyBookGetByIdUnscoped(bs, id, u) ==
    IF \E b \in bs : b.id = id
    THEN CHOOSE b \in bs : b.id = id
    ELSE NoEntity

\* SQLAlchemyStudyBookRepository.get_by_id: filter on id and user_id
StudyBookGetById(bs, id, u) ==
    IF \E b \in bs : b.id = id /\ b.user_id = u
    THEN CHOOSE b \in bs : b.id = id /\ b.user_id = u
    ELSE NoEntity

\* (mutant) the lookup without the join to study_books
QuestionGetByIdUnscoped(bs, qs, id, u) ==
    IF \E q \in qs : q.id = id
    THEN CHOOSE q \in qs : q.id = id
    ELSE NoEntity

\* SQLAlchemyQuestionRepository.get_by_id: questions JOIN study_books ON
\* study_book_id = study_books.id, filter on question id and owner
QuestionGetById(bs, qs, id, u) ==
    IF \E q \in qs : q.id = id /\ \E b \in bs : b.id = q.study_book_id /\ b.user_id = u
    THEN CHOOSE q \in qs :
            q.id = id /\ \E b \in bs : b.id = q.study_book_id /\ b.user_id = u
    ELSE NoEntity

\* the rows removed with a set of study books: ON DELETE CASCADE removes
\* their questions, each removal firing questions_fts_delete, but only on a
\* connection that enforces foreign keys; a bulk Query.delete() runs no ORM
\* cascade
CascadeDelete(bs, qs, idx, doomed) ==
    LET bookIds == {b.id : b \in doomed}
        gone    == {q \in qs : q.study_book_id \in bookIds}
    IN  IF ~SessionForeignKeys \/ gone = {}
        THEN [ok |-> TRUE, books |-> bs \ doomed, questions |-> qs, idx |-> idx]
        ELSE IF ~IndexAvailable \/ ~ContentReadable
        THEN [ok |-> FALSE, books |-> bs, questions |-> qs, idx |-> idx]
        ELSE [ok |-> TRUE, books |-> bs \ doomed, questions |-> qs \ gone,
              idx |-> {e \in idx : e.question_id \notin {q.id : q \in gone}}]

(* ------------------------------- search -------------------------------- *)
\* _prepare_fts_query: every word becomes a quoted phrase, joined with OR;
\* the result is the set of words a row must share at least one with
PrepareFtsQuery(query) == Tokenize(query)

\* questions_fts MATCH ?: the index entries holding a word of the query in
\* question or answer (question_id is UNINDEXED)
FtsMatch(idx, words) ==
    {e \in idx : (Tokenize(e.question) \cup Tokenize(e.answer)) \cap words # {}}

\* bm25(questions_fts), coarsely: the more words of the query a row holds
\* the smaller (more relevant) the statistic
Bm25(e, words) ==
    0 - Cardinality((Tokenize(e.question) \cup Tokenize(e.answer)) \cap words)

\* JOIN questions q ON q.id = questions_fts.question_id
\* JOIN study_books sb ON sb.id = q.study_book_id WHERE sb.user_id = ?
ScopedHits(bs, qs, hits, u) ==
    {e \in hits : \E q \in qs : /\ q.id = e.question_id
                                /\ \E b \in bs : b.id = q.study_book_id /\ b.user_id = u}

\* SearchResult.score: max(0.0, 1.0 / (1.0 + abs(row['score'])))
Score(raw) == RatioMax(Ratio(0, 1), Ratio(1, 1 + Abs(raw)))

\* snippet(questions_fts, 1, '<mark>', '</mark>', '...', 32): the text of
\* column question with the words of the query marked
RECURSIVE Snippet(_, _)
Snippet(text, words) ==
    IF text = <<>> THEN <<>>
    ELSE (IF Head(text) \in words THEN <<"<mark>", Head(text), "</mark>">>
          ELSE <<Head(text)>>) \o Snippet(Tail(text), words)

\* the value of column highlight of a row: the snippet of column question,
\* or none (NULL or '') when the row matches in column answer only and the
\* index gives no snippet for such rows
NoSnippet == <<>>
RowSnippet(e, words, given) ==
    IF given \/ Tokenize(e.question) \cap words # {}
    THEN Snippet(e.question, words)
    ELSE NoSnippet

\* (mutant) highlight=row['highlight'], without the fallback
HighlightBare(snippet, question) == snippet

\* highlight=row['highlight'] or row['question']
Highlight(snippet, question) == IF snippet = NoSnippet THEN question ELSE snippet

\* one row of the SELECT mapped to a SearchResult (lines 84-93); snippet is
\* kept beside the result for the properties
ToSearchResult(e, words, snippet) ==
    [question_id |-> e.question_id, raw |-> Bm25(e, words),
     score |-> Score(Bm25(e, words)), question |-> e.question,
     snippet |-> snippet, highlight |-> Highlight(snippet, e.question)]

\* ORDER BY bm25 ASC: every order of the rows the sort allows (rows of equal
\* statistic come in no defined order)
RowOrders(hits, words) ==
    LET n == Cardinality(hits)
    IN  {f \in [1..n -> hits] :
           /\ \A i, j \in 1..n : i # j => f[i] # f[j]
           /\ \A i, j \in 1..n : i < j => Bm25(f[i], words) <= Bm25(f[j], words)}

\* (mutant) ORDER BY bm25 ASC without LIMIT ?
RankedResultsUncut(hits, words, limit) ==
    LET n == Cardinality(hits)
    IN  {[i \in 1..n |-> ToSearchResult(f[i], words, RowSnippet(f[i], words, given))] :
           f \in RowOrders(hits, words), given \in BOOLEAN}

\* ORDER BY bm25 ASC LIMIT ?: the ordered rows cut to the limit, each row
\* mapped to a SearchResult
RankedResults(hits, words, limit) ==
    LET n == Min2(limit, Cardinality(hits))
    IN  {[i \in 1..n |-> ToSearchResult(f[i], words, RowSnippet(f[i], words, given))] :
           f \in RowOrders(hits, words), given \in BOOLEAN}

\* the rows the SELECT yields when it can read them
SelectRows(bs, qs, idx, words, u, limit) ==
    RankedResults(ScopedHits(bs, qs, FtsMatch(idx, words), u), words, limit)

\* if not query or not query.strip() ... if limit <= 0 or limit > 100
ValidSearch(query, limit) == ~(Len(query) = 0 \/ limit <= 0 \/ limit > MaxLimit)

\* SQLiteFtsStrategy.search_questions: the outcomes the call can have on the
\* index idx.  The statement cannot be prepared when questions_fts does not
\* exist.  A row the MATCH yields has its question_id read for the join,
\* which raises sqlite3.Error when the content table is not readable.
SearchQuestions(bs, qs, idx, query, u, limit) ==
    IF ~ValidSearch(query, limit)
    THEN {[status |-> ValidationError(Message), results |-> <<>>]}
    ELSE IF ~IndexAvailable
    THEN {[status |-> SearchIndexError(Message), results |-> <<>>]}
    ELSE LET words == PrepareFtsQuery(query)
             hits  == FtsMatch(idx, words)
         IN  IF hits = {}
             THEN {[status |-> "ok", results |-> <<>>]}
             ELSE IF ~ContentReadable
             THEN {[status |-> SearchIndexError(Message), results |-> <<>>]}
             ELSE {[status |-> "ok", results |-> r] :
                     r \in SelectRows(bs, qs, idx, words, u, limit)}

\* search_questions, lines 52-93, on rows the SELECT can read
SearchQuestionsReadable(bs, qs, idx, query, u, limit) ==
    IF ~ValidSearch(query, limit)
    THEN {[status |-> ValidationError(Message), results |-> <<>>]}
    ELSE {[status |-> "ok", results |-> r] :
            r \in SelectRows(bs, qs, idx, PrepareFtsQuery(query), u, limit)}

\* q.strip()
Strip(q) == [q EXCEPT !.blanks = 0]
\* len(q)
RawLen(q) == q.chars + q.blanks

\* the handler's except clauses: ValidationError is answered 400,
\* SearchIndexError 500 "Search index error", every other exception 500
\* "Unexpected search error"
SearchExcept(status) ==
    IF status \in {"ok", "validation_error", "index_error"} THEN status
    ELSE "internal_error"

\* GET /search/questions.  FastAPI checks q and limit against their Query
\* declarations first (422).  The handler's own checks raise
\* HTTPException(400) inside the try block, where except Exception catches
\* it and raises HTTPException(500).  The handler calls the strategy's
\* search_questions once and no other method of it.
SearchEndpoint(bs, qs, idx, q, u, limit) ==
    IF RawLen(q) < 1 \/ RawLen(q) > ApiQueryMaxLength \/ limit < 1 \/ limit > MaxLimit
    THEN {[status |-> "validation_error", results |-> <<>>, calls |-> <<>>]}
    ELSE IF Strip(q).chars = 0 \/ Strip(q).chars > ApiQueryMaxLength
    THEN {[status |-> "internal_error", results |-> <<>>, calls |-> <<>>]}
    ELSE {[status |-> SearchExcept(o.status), results |-> o.results,
           calls |-> <<"search_questions">>] :
            o \in SearchQuestions(bs, qs, idx, Strip(q).words, u, limit)}

\* GET /search/questions on rows the SELECT can read: limit is checked
\* against Query(ge=1, le=100) before the handler runs (422), so the
\* strategy's own limit check is never reached through the endpoint
SearchEndpointReadable(bs, qs, idx, query, u, limit) ==
    IF limit < 1 \/ limit > MaxLimit
    THEN {[status |-> "validation_error", results |-> <<>>]}
    ELSE {[status |-> SearchExcept(o.status), results |-> o.results] :
            o \in SearchQuestionsReadable(bs, qs, idx, query, u, limit)}

\* (mutant) the rebuild's writes are seen before they are committed
ReaderViewDirty(committed, work) == work

\* what a connection other than the rebuilding one reads while the rebuild
\* transaction is open: the committed index, not the transaction's own
ReaderView(committed, work) == committed

IndexSeen == IF rebuild.pc = "idle" THEN fts_index
             ELSE ReaderView(fts_index, rebuild.work)

\* INSERT INTO questions_fts(questions_fts) VALUES('rebuild'), second half:
\* the index recomputed from a scan of the content table
RebuiltIndex(qs) ==
    {[rowid |-> q.rowid, question_id |-> q.id,
      question |-> q.question, answer |-> q.answer] : q \in qs}

\* (mutant) the rollback restores all but the entry deleted first
RolledBackPartly(pre, work) ==
    {e \in pre : e.rowid # Max({x.rowid : x \in pre})}

\* the index after the rebuild transaction is rolled back: with
\* sqlite3.connect(...) as conn rolls back when the block raises
RolledBack(pre, work) == pre

(* ----------------------- system problems service ----------------------- *)
\* the CachedSystemProblemsService objects the process may construct
Instances == {"s1", "s2"}

\* language names as written by callers, character by character
Space == " "
Names == {<<"c", "s", "s">>, <<Space, "C", "s", "S", Space>>, <<"z">>}

\* Optional[...]: None, or a value
None == [some |-> FALSE, value |-> <<>>]
Some(v) == [some |-> TRUE, value |-> v]

\* str.lower(), on the characters of Names
Lower(c) == CASE c = "C" -> "c" [] c = "S" -> "s" [] OTHER -> c
LowerAll(name) == [i \in 1..Len(name) |-> Lower(name[i])]

\* str.strip()
RECURSIVE LStrip(_)
LStrip(name) ==
    IF name # <<>> /\ Head(name) = Space THEN LStrip(Tail(name)) ELSE name
Reverse(s) == [i \in 1..Len(s) |-> s[Len(s) + 1 - i]]
StripName(name) == Reverse(LStrip(Reverse(LStrip(name))))

\* (mutant) language.lower() without strip()
NormalizeLanguageUnstripped(language) == LowerAll(language)

\* normalize_language: language.lower().strip()
NormalizeLanguage(language) == StripName(LowerAll(language))

\* create_default_problems_data(): the dict, as its items in insertion order
CreateDefaultProblemsData ==
    <<
      [language |-> <<"h", "t", "m", "l">>,
       problems |-> <<
           [question |-> "<!DOCTYPE html>",
            answer |-> "<!DOCTYPE html>",
            difficulty |-> "beginner", category |-> "doctype"],
           [question |-> "<html lang='ja'>",
            answer |-> "<html lang='ja'>",
            difficulty |-> "beginner", category |-> "attributes"],
           [question |-> "<meta charset='UTF-8'>",
            answer |-> "<meta charset='UTF-8'>",
            difficulty |-> "beginner", category |-> "meta"]>>],
      [language |-> <<"c", "s", "s">>,
       problems |-> <<
           [question |-> "* { box-sizing: border-box; }",
            answer |-> "* { box-sizing: border-box; }",
            difficulty |-> "intermediate", category |-> "universal"],
           [question |-> ".container { max-width: 1200px; margin: 0 auto; }",
            answer |-> ".container { max-width: 1200px; margin: 0 auto; }",
            difficulty |-> "beginner", category |-> "layout"]>>],
      [language |-> <<"j", "a", "v", "a", "s", "c", "r", "i", "p", "t">>,
       problems |-> <<
           [question |-> "const arr = [1, 2, 3, 4, 5];",
            answer |-> "const arr = [1, 2, 3, 4, 5];",
            difficulty |-> "beginner", category |-> "arrays"],
           [question |-> "arr.map(x => x * 2)",
            answer |-> "arr.map(x => x * 2)",
            difficulty |-> "intermediate", category |-> "methods"],
           [question |-> "function calculateSum(a, b) { return a + b; }",
            answer |-> "function calculateSum(a, b) { return a + b; }",
            difficulty |-> "beginner", category |-> "functions"]>>],
      [language |-> <<"p", "h", "p">>,
       problems |-> <<
           [question |-> "<?php echo 'Hello World'; ?>",
            answer |-> "<?php echo 'Hello World'; ?>",
            difficulty |-> "beginner", category |-> "basics"]>>],
      [language |-> <<"j", "a", "v", "a">>,
       problems |-> <<
           [question |-> "public class Main { public static void main(String[] args) {",
            answer |-> "public class Main { public static void main(String[] args) {",
            difficulty |-> "beginner", category |-> "class"]>>],
      [language |-> <<"p", "y", "t", "h", "o", "n", "3">>,
       problems |-> <<
           [question |-> "def calculate_sum(a, b): return a + b",
            answer |-> "def calculate_sum(a, b): return a + b",
            difficulty |-> "beginner", category |-> "functions"]>>],
      [language |-> <<"s", "q", "l">>,
       problems |-> <<
           [question |-> "SELECT * FROM users WHERE age > 18;",
            answer |-> "SELECT * FROM users WHERE age > 18;",
            difficulty |-> "beginner", category |-> "queries"],
           [question |-> "CREATE TABLE users (id INT PRIMARY KEY, name VARCHAR(100));",
            answer |-> "CREATE TABLE users (id INT PRIMARY KEY, name VARCHAR(100));",
            difficulty |-> "intermediate", category |-> "ddl"]>>],
      [language |-> <<"l", "i", "n", "u", "x", " ", "(", "r", "e", "d", " ", "h", "a", "t", ")">>,
       problems |-> <<
           [question |-> "sudo yum install nginx",
            answer |-> "sudo yum install nginx",
            difficulty |-> "beginner", category |-> "package"]>>],
      [language |-> <<"l", "i", "n", "u", "x", "(", "d", "e", "b", "i", "a", "n", ")">>,
       problems |-> <<
           [question |-> "sudo apt-get update && sudo apt-get install nginx",
            answer |-> "sudo apt-get update && sudo apt-get install nginx",
            difficulty |-> "beginner", category |-> "package"]>>],
      [language |-> <<"g", "i", "t">>,
       problems |-> <<
           [question |-> "git add . && git commit -m 'Initial commit'",
            answer |-> "git add . && git commit -m 'Initial commit'",
            difficulty |-> "beginner", category |-> "basics"]>>]
    >>

\* dict.keys(), key in dict, dict.get(key, default)
DictKeys(d) == [i \in 1..Len(d) |-> d[i].language]
DictHas(d, key) == \E i \in 1..Len(d) : d[i].language = key
DictGet(d, key, default) ==
    IF DictHas(d, key)
    THEN d[CHOOSE i \in 1..Len(d) : d[i].language = key].problems
    ELSE default

\* __init__
NewService == [problems_cache |-> None, languages_cache |-> None,
               cache_timestamp |-> "None"]

\* _load_cache_async
LoadCacheAsync(svc) ==
    [problems_cache |-> Some(CreateDefaultProblemsData),
     languages_cache |-> Some(DictKeys(CreateDefaultProblemsData)),
     cache_timestamp |-> "time"]

\* (mutant) a call that does not await _ensure_cache_loaded
EnsureCacheLoadedSkipped(svc) == [svc |-> svc, loads |-> 0]

\* (mutant) _ensure_cache_loaded without its checks
EnsureCacheLoadedUnchecked(svc) == [svc |-> LoadCacheAsync(svc), loads |-> 1]

\* _ensure_cache_loaded: the service afterwards and the number of loads run.
\* The lock is free whenever a call reaches it: no call awaits anything
\* while holding it, so the second check sees what the first one saw.
EnsureCacheLoaded(svc) ==
    IF ~svc.problems_cache.some \/ ~svc.languages_cache.some
    THEN [svc |-> LoadCacheAsync(svc), loads |-> 1]
    ELSE [svc |-> svc, loads |-> 0]

\* functools.lru_cache: a new entry is stored, an entry being dropped for it
\* once maxsize entries are held
LruPut(lru, entry, maxsize) ==
    IF Cardinality(lru) < maxsize THEN {lru \cup {entry}}
    ELSE {(lru \ {old}) \cup {entry} : old \in lru}

\* @lru_cache(maxsize=128), @lru_cache(maxsize=1)
LruProblemsMaxSize == 128
LruLanguagesMaxSize == 1

\* (mutant) self._problems_cache[normalized_language]: KeyError on a key
\* the dict lacks
GetProblemsByLanguageCachedStrict(lru, svc, self, key) ==
    IF \E e \in lru : e.self = self /\ e.key = key
    THEN {[status |-> "ok", lru |-> lru,
           out |-> (CHOOSE e \in lru : e.self = self /\ e.key = key).value]}
    ELSE IF ~svc.problems_cache.some \/ ~DictHas(svc.problems_cache.value, key)
    THEN {[status |-> "error", lru |-> lru, out |-> <<>>]}
    ELSE LET value == DictGet(svc.problems_cache.value, key, <<>>)
         IN  {[status |-> "ok", lru |-> l, out |-> value] :
                l \in LruPut(lru, [self |-> self, key |-> key, value |-> value],
                             LruProblemsMaxSize)}

\* _get_problems_by_language_cached(self, normalized_language): the stored
\* result for (self, normalized_language), else
\* self._problems_cache.get(normalized_language, []), which raises
\* AttributeError on None
GetProblemsByLanguageCached(lru, svc, self, key) ==
    IF \E e \in lru : e.self = self /\ e.key = key
    THEN {[status |-> "ok", lru |-> lru,
           out |-> (CHOOSE e \in lru : e.self = self /\ e.key = key).value]}
    ELSE IF ~svc.problems_cache.some
    THEN {[status |-> "error", lru |-> lru, out |-> <<>>]}
    ELSE LET value == DictGet(svc.problems_cache.value, key, <<>>)
         IN  {[status |-> "ok", lru |-> l, out |-> value] :
                l \in LruPut(lru, [self |-> self, key |-> key, value |-> value],
                             LruProblemsMaxSize)}

\* _get_available_languages_cached(self): self._languages_cache.copy()
GetAvailableLanguagesCached(lru, svc, self) ==
    IF \E e \in lru : e.self = self
    THEN {[status |-> "ok", lru |-> lru,
           out |-> (CHOOSE e \in lru : e.self = self).value]}
    ELSE IF ~svc.languages_cache.some
    THEN {[status |-> "error", lru |-> lru, out |-> <<>>]}
    ELSE {[status |-> "ok", lru |-> l, out |-> svc.languages_cache.value] :
            l \in LruPut(lru, [self |-> self, value |-> svc.languages_cache.value],
                         LruLanguagesMaxSize)}

\* (mutant) clear_cache leaving an empty dict and list instead of None
ClearedServiceEmpty == [problems_cache |-> Some(<<>>), languages_cache |-> Some(<<>>),
                        cache_timestamp |-> "None"]

\* clear_cache, lines 91-93
ClearedService == [problems_cache |-> None, languages_cache |-> None,
                   cache_timestamp |-> "None"]

\* warm_cache: common_languages
CommonLanguages ==
    <<<<"j", "a", "v", "a", "s", "c", "r", "i", "p", "t">>, 
       <<"h", "t", "m", "l">>, 
       <<"c", "s", "s">>, 
       <<"p", "y", "t", "h", "o", "n", "3">>, 
       <<"s", "q", "l">>>>

\* warm_cache, lines 103-105: the lru stores the loop can leave
RECURSIVE WarmProblems(_, _, _, _)
WarmProblems(lru, svc, self, langs) ==
    IF langs = <<>> THEN {lru}
    ELSE IF ~DictHas(svc.problems_cache.value, Head(langs))
    THEN WarmProblems(lru, svc, self, Tail(langs))
    ELSE UNION {WarmProblems(o.lru, svc, self, Tail(langs)) :
                  o \in GetProblemsByLanguageCached(lru, svc, self, Head(langs))}

\* the response of a service call; loads: the loads the call ran
Reply(op, self, name, status, out, loads) ==
    [op |-> op, self |-> self, name |-> name, status |-> status, out |-> out,
     loads |-> loads]

\* a response as a caller keeps it (result1 = await ...), with the number
\* of clear_cache calls made before it
Kept(r, clears) ==
    [op |-> r.op, name |-> r.name, status |-> r.status, out |-> r.out,
     clears |-> clears]

(* ------------------------------ the state ------------------------------ *)
Init ==
    /\ users = {}
    /\ study_books = {}
    /\ questions = {}
    /\ fts_index = {}
    /\ fts_table = "present"
    /\ usedBookIds = {}
    /\ usedQuestionIds = {}
    /\ rebuild = [pc |-> "idle", pre |-> {}, work |-> {}]
    /\ deleteRequested = {}
    /\ last = Resp("none", "u1", 0, "ok", <<>>)
    /\ services = <<>>
    /\ lru_problems = {}
    /\ lru_languages = {}
    /\ load_calls = <<>>
    /\ clear_calls = 0
    /\ reply = Reply("none", "s1", <<>>, "ok", <<>>, 0)
    /\ kept = Kept(Reply("none", "s1", <<>>, "ok", <<>>, 0), 0)
    /\ clock = 0
    /\ user_rows = {}
    /\ auth = [r \in Requests |-> AuthIdle]
    /\ typing_logs = {}
    /\ learning_events = {}

\* SQLite admits one writer: while rebuild_index holds its write
\* transaction every other writer waits for the lock
WriterFree == rebuild.pc = "idle"

(* ------------------------------- users --------------------------------- *)
\* get_current_user_id: email=f"user-{user_id}@example.com"
AutoEmail(u) == <<"user-", u, "@example.com">>

\* email.strip().lower() in create_user
NormalizeEmail(email) == LowerAll(StripName(email))

\* SQLAlchemyUserRepository.get_by_email: UserModel.email == email.lower()
UserGetByEmail(rows, email) == {row \in rows : row.email = LowerAll(email)}

\* SQLAlchemyUserRepository.create: INSERT INTO users with email.lower();
\* id is the primary key and email is declared unique, a violation of
\* either rolls back and ends in raise ValidationError(message)
UserRepoCreate(rows, id, email) ==
    IF \E row \in rows : row.id = id \/ row.email = LowerAll(email)
    THEN [status |-> ValidationError(Message), rows |-> rows]
    ELSE [status |-> "ok", rows |-> rows \cup {[id |-> id, email |-> LowerAll(email)]}]

\* first authenticated contact or signup
UserCreate(u) ==
    /\ WriterFree
    /\ u \notin users
    /\ users' = users \cup {u}
    /\ user_rows' = user_rows \cup {[id |-> u, email |-> AutoEmail(u)]}
    /\ last' = Resp("create_user", u, 0, "ok", <<>>)
    /\ UNCHANGED <<study_books, questions, fts_index, ids, rebuild,
                   deleteRequested, fts_table, cache, clock, auth, logs>>

\* SQLAlchemyUserRepository.delete: bulk DELETE FROM users WHERE id = ?
UserDelete(u) ==
    /\ WriterFree
    /\ LET doomed == IF SessionForeignKeys /\ u \in users
                     THEN {b \in study_books : b.user_id = u} ELSE {}
           c == CascadeDelete(study_books, questions, fts_index, doomed)
       IN  /\ users' = IF c.ok THEN users \ {u} ELSE users
           /\ user_rows' = IF c.ok THEN {row \in user_rows : row.id # u}
                           ELSE user_rows
           \* typing_logs.user_id is declared ON DELETE CASCADE, table
           \* learning_events has no foreign key
           /\ typing_logs' = IF c.ok /\ SessionForeignKeys
                             THEN {l \in typing_logs : l.user_id # u}
                             ELSE typing_logs
           /\ study_books' = c.books
           /\ questions' = c.questions
           /\ fts_index' = c.idx
           /\ last' = Resp("delete_user", u, 0,
                           IF ~c.ok THEN ValidationError(Message)
                           ELSE IF u \in users THEN "ok" ELSE "not_found", <<>>)
    /\ UNCHANGED <<ids, rebuild, deleteRequested, fts_table, cache, clock, auth,
                   learning_events>>

(* ---------------------------- study books ------------------------------ *)
\* create_study_book: the id is a fresh uuid4, the owner the requester,
\* created_at the time of the request (datetime.utcnow)
StudyBookCreate(u, id, title) ==
    /\ WriterFree
    /\ id = Max(usedBookIds) + 1
    /\ study_books' = study_books \cup {[id |-> id, user_id |-> u, title |-> title,
                                          description |-> Absent,
                                          created_at |-> clock,
                                          updated_at |-> clock]}
    /\ usedBookIds' = usedBookIds \cup {id}
    /\ last' = Resp("create_study_book", u, id, "ok", <<>>)
    /\ UNCHANGED <<users, questions, fts_index, usedQuestionIds, rebuild,
                   deleteRequested, fts_table, cache, clock, journal>>

\* get_study_book: 404 when the repository returns None
StudyBookGetResult(bs, id, u) ==
    LET b == StudyBookGetById(bs, id, u)
    IN  [status |-> IF b = NoEntity THEN "not_found" ELSE "ok", out |-> <<b>>]

StudyBookGet(u, id) ==
    /\ LET r == StudyBookGetResult(study_books, id, u)
       IN  last' = Resp("get_study_book", u, id, r.status, r.out)
    /\ UNCHANGED <<store, ids, rebuild, deleteRequested, fts_table, cache, clock, journal>>

\* (mutant) every field of the request is written, given or not
ApplyStudyBookUpdateAll(existing, request) ==
    [existing EXCEPT !.title = IF request.title = Absent THEN @
                                ELSE ValueOf(request.title),
                     !.description = request.description]

\* update_study_book, "Update fields if provided": a field of the request
\* that is not None replaces the field of the entity get_by_id returned
ApplyStudyBookUpdate(existing, request) ==
    [existing EXCEPT !.title = IF request.title = Absent THEN @
                                ELSE ValueOf(request.title),
                     !.description = IF request.description = Absent THEN @
                                      ELSE request.description]

\* (mutant) the row is looked up by id alone and user_id is written too
StudyBookRepoUpdateUnscoped(bs, entity, now) ==
    IF ~\E b \in bs : b.id = entity.id
    THEN [status |-> "not_found", books |-> bs, out |-> <<>>]
    ELSE LET b   == CHOOSE b \in bs : b.id = entity.id
             new == [b EXCEPT !.user_id = entity.user_id,
                              !.title = entity.title,
                              !.description = entity.description,
                              !.updated_at = now]
         IN  [status |-> "ok", books |-> (bs \ {b}) \cup {new}, out |-> <<new>>]

\* SQLAlchemyStudyBookRepository.update: the row is looked up by the
\* entity's id and user_id (StudyBookNotFoundError when there is none);
\* title, description and updated_at are written, user_id never
StudyBookRepoUpdate(bs, entity, now) ==
    IF ~\E b \in bs : b.id = entity.id /\ b.user_id = entity.user_id
    THEN [status |-> "not_found", books |-> bs, out |-> <<>>]
    ELSE LET b   == CHOOSE b \in bs : b.id = entity.id /\ b.user_id = entity.user_id
             new == [b EXCEPT !.title = entity.title,
                              !.description = entity.description,
                              !.updated_at = now]
         IN  [status |-> "ok", books |-> (bs \ {b}) \cup {new}, out |-> <<new>>]

\* update_study_book: get_by_id (404 when None), the fields given are set
\* on the entity, and the entity is handed to the repository's update.  The
\* handler is a coroutine that awaits nothing that suspends, so no other
\* handler runs between its read and its write.
UpdateStudyBook(u, id, request) ==
    /\ WriterFree
    /\ LET existing == StudyBookGetById(study_books, id, u)
       IN  IF existing = NoEntity
           THEN /\ study_books' = study_books
                /\ last' = Resp("update_study_book", u, id, "not_found", <<>>)
           ELSE LET r == StudyBookRepoUpdate(study_books,
                                             ApplyStudyBookUpdate(existing, request),
                                             clock)
                IN  /\ study_books' = r.books
                    /\ last' = Resp("update_study_book", u, id, r.status,
                                    r.out \o <<request>>)
    /\ UNCHANGED <<users, questions, fts_index, ids, rebuild,
                   deleteRequested, fts_table, cache, clock, journal>>

\* update_study_book with a request that gives the title alone
StudyBookUpdate(u, id, title) ==
    UpdateStudyBook(u, id, [title |-> Given(title), description |-> Absent])

\* SQLAlchemyStudyBookRepository.update called with an entity of any
\* content
StudyBookRepositoryUpdate(entity) ==
    /\ WriterFree
    /\ LET r == StudyBookRepoUpdate(study_books, entity, clock)
       IN  /\ study_books' = r.books
           /\ last' = Resp("repository_update_study_book", entity.user_id,
                           entity.id, r.status, r.out \o <<entity>>)
    /\ UNCHANGED <<users, questions, fts_index, ids, rebuild,
                   deleteRequested, fts_table, cache, clock, journal>>

\* SQLAlchemyStudyBookRepository.delete: bulk DELETE FROM study_books WHERE
\* id = ? AND user_id = ?; true when a row was deleted
StudyBookDelete(u, id) ==
    /\ WriterFree
    /\ LET doomed == {b \in study_books : b.id = id /\ b.user_id = u}
           c == CascadeDelete(study_books, questions, fts_index, doomed)
       IN  /\ study_books' = c.books
           /\ questions' = c.questions
           /\ fts_index' = c.idx
           /\ last' = Resp("delete_study_book", u, id,
                           IF ~c.ok THEN ValidationError(Message)
                           ELSE IF doomed # {} THEN "ok" ELSE "not_found", <<>>)
    /\ UNCHANGED <<users, ids, rebuild, deleteRequested, fts_table, cache, clock, journal>>

(* ------------------------------ questions ------------------------------ *)
\* SQLAlchemyQuestionRepository.create: INSERT INTO questions, which fires
\* questions_fts_insert in the same transaction; a failure of either rolls
\* both back.  A row whose id is already stored violates the primary key.
QuestionRepoCreate(qs, idx, row) ==
    IF \E q \in qs : q.id = row.id
    THEN [ok |-> FALSE, questions |-> qs, idx |-> idx]
    ELSE LET new == [row EXCEPT !.rowid = Max({q.rowid : q \in qs}) + 1]
             t   == FtsInsertTrigger(idx, new)
         IN  IF t.ok
             THEN [ok |-> TRUE, questions |-> qs \cup {new}, idx |-> t.idx]
             ELSE [ok |-> FALSE, questions |-> qs, idx |-> idx]

\* (mutant) the row change is committed before the trigger's failure is
\* seen, and not rolled back
QuestionRepoUpdateNoRollback(qs, idx, old, new) ==
    LET t == FtsUpdateTrigger(idx, new)
    IN  [ok |-> t.ok, questions |-> (qs \ {old}) \cup {new}, idx |-> t.idx]

\* SQLAlchemyQuestionRepository.update, once the row is found: UPDATE
\* questions, which fires questions_fts_update in the same transaction
QuestionRepoUpdate(qs, idx, old, new) ==
    LET t == FtsUpdateTrigger(idx, new)
    IN  IF t.ok
        THEN [ok |-> TRUE, questions |-> (qs \ {old}) \cup {new}, idx |-> t.idx]
        ELSE [ok |-> FALSE, questions |-> qs, idx |-> idx]

\* SQLAlchemyQuestionRepository.delete, once the row is found: DELETE FROM
\* questions, which fires questions_fts_delete in the same transaction
QuestionRepoDelete(qs, idx, old) ==
    LET t == FtsDeleteTrigger(idx, old)
    IN  IF t.ok
        THEN [ok |-> TRUE, questions |-> qs \ {old}, idx |-> t.idx]
        ELSE [ok |-> FALSE, questions |-> qs, idx |-> idx]

\* create_question: the study book must be the requester's; the id is the
\* entity's (a fresh uuid4 by default, or one the caller supplies, which may
\* be the id of a stored row)
QuestionCreate(u, b, id, q, a) ==
    /\ WriterFree
    /\ id = Max(usedQuestionIds) + 1 \/ \E x \in questions : x.id = id
    /\ IF StudyBookGetById(study_books, b, u) = NoEntity
       THEN /\ last' = Resp("create_question", u, id, "not_found", <<>>)
            /\ UNCHANGED <<questions, fts_index, usedQuestionIds>>
       ELSE LET row == [rowid |-> 0, id |-> id, study_book_id |-> b,
                        question |-> q, answer |-> a, created_at |-> clock]
                c   == QuestionRepoCreate(questions, fts_index, row)
            IN  /\ questions' = c.questions
                /\ fts_index' = c.idx
                /\ usedQuestionIds' = usedQuestionIds \cup {id}
                /\ last' = Resp("create_question", u, id,
                                IF c.ok THEN "ok" ELSE ValidationError(Message), <<>>)
    /\ UNCHANGED <<users, study_books, usedBookIds, rebuild, deleteRequested, fts_table, cache, clock, journal>>

\* get_question: 404 when the repository returns None
QuestionGetResult(bs, qs, id, u) ==
    LET q == QuestionGetById(bs, qs, id, u)
    IN  [status |-> IF q = NoEntity THEN "not_found" ELSE "ok", out |-> <<q>>]

QuestionGet(u, id) ==
    /\ LET r == QuestionGetResult(study_books, questions, id, u)
       IN  last' = Resp("get_question", u, id, r.status, r.out)
    /\ UNCHANGED <<store, ids, rebuild, deleteRequested, fts_table, cache, clock, journal>>

\* update_question, "Update fields if provided"
ApplyQuestionUpdate(existing, request) ==
    [existing EXCEPT !.question = IF request.question = Absent THEN @
                                   ELSE ValueOf(request.question),
                     !.answer = IF request.answer = Absent THEN @
                                 ELSE ValueOf(request.answer)]

\* update_question: get_by_id (404 when None), the fields given are set on
\* the entity, and SQLAlchemyQuestionRepository.update looks the row up
\* through its study book's owner and writes question and answer,
\* study_book_id never
UpdateQuestion(u, id, request) ==
    /\ WriterFree
    /\ LET old == QuestionGetById(study_books, questions, id, u)
       IN  IF old = NoEntity
           THEN /\ last' = Resp("update_question", u, id, "not_found", <<>>)
                /\ UNCHANGED <<questions, fts_index>>
           ELSE LET new == ApplyQuestionUpdate(old, request)
                    c   == QuestionRepoUpdate(questions, fts_index, old, new)
                IN  /\ questions' = c.questions
                    /\ fts_index' = c.idx
                    /\ last' = Resp("update_question", u, id,
                                    IF c.ok THEN "ok" ELSE ValidationError(Message),
                                    <<old, request>>)
    /\ UNCHANGED <<users, study_books, ids, rebuild, deleteRequested, fts_table, cache, clock, journal>>

\* update_question with a request that gives question and answer
QuestionUpdate(u, id, q, a) ==
    UpdateQuestion(u, id, [question |-> Given(q), answer |-> Given(a)])

\* SQLAlchemyQuestionRepository.update called with an entity of any
\* content: the entity's study_book_id is not read
QuestionRepositoryUpdate(entity, u) ==
    /\ WriterFree
    /\ LET old == QuestionGetById(study_books, questions, entity.id, u)
       IN  IF old = NoEntity
           THEN /\ last' = Resp("repository_update_question", u, entity.id,
                                "not_found", <<>>)
                /\ UNCHANGED <<questions, fts_index>>
           ELSE LET new == [old EXCEPT !.question = entity.question,
                                       !.answer = entity.answer]
                    c   == QuestionRepoUpdate(questions, fts_index, old, new)
                IN  /\ questions' = c.questions
                    /\ fts_index' = c.idx
                    /\ last' = Resp("repository_update_question", u, entity.id,
                                    IF c.ok THEN "ok" ELSE ValidationError(Message),
                                    <<old, entity>>)
    /\ UNCHANGED <<users, study_books, ids, rebuild, deleteRequested, fts_table, cache, clock, journal>>

\* (mutant) the typing logs after session.delete(question) with the UPDATE
\* of the flush kept when the DELETE fails
TypingLogsAfterDeleteNoRollback(ls, old, ok) ==
    {IF l.question_id = Given(old.id) THEN [l EXCEPT !.question_id = Absent]
     ELSE l : l \in ls}

\* the typing logs after session.delete(question): relationship typing_logs
\* of QuestionModel has no cascade, so the flush first sets question_id of
\* the question's logs to NULL and then deletes the question; the rollback
\* of a failed DELETE undoes the UPDATE as well
TypingLogsAfterDelete(ls, old, ok) ==
    IF ok
    THEN {IF l.question_id = Given(old.id) THEN [l EXCEPT !.question_id = Absent]
          ELSE l : l \in ls}
    ELSE ls

\* SQLAlchemyQuestionRepository.delete: false when no row of the requester
\* has the id, else session.delete(question) and commit
QuestionDeleteRows(u, id) ==
    /\ WriterFree
    /\ LET old == QuestionGetById(study_books, questions, id, u)
       IN  IF old = NoEntity
           THEN /\ last' = Resp("delete_question", u, id, "not_found", <<>>)
                /\ UNCHANGED <<questions, fts_index, typing_logs>>
           ELSE LET c == QuestionRepoDelete(questions, fts_index, old)
                IN  /\ questions' = c.questions
                    /\ fts_index' = c.idx
                    /\ typing_logs' = TypingLogsAfterDelete(typing_logs, old, c.ok)
                    /\ last' = Resp("delete_question", u, id,
                                    IF c.ok THEN "ok" ELSE ValidationError(Message),
                                    <<old>>)
    /\ UNCHANGED <<users, study_books, ids, rebuild, fts_table, cache, clock,
                   user_rows, auth, learning_events>>

QuestionDelete(u, id) ==
    /\ QuestionDeleteRows(u, id)
    /\ UNCHANGED deleteRequested

\* the same delete, the rows whose owner asked for their deletion being
\* remembered
QuestionDeleteLogged(u, id) ==
    /\ QuestionDeleteRows(u, id)
    /\ LET old == QuestionGetById(study_books, questions, id, u)
       IN  deleteRequested' =
             IF old = NoEntity THEN deleteRequested
             ELSE deleteRequested \cup {[id |-> old.id, question |-> old.question,
                                         answer |-> old.answer]}

(* ------------------------- search and rebuild -------------------------- *)
\* search_questions on a connection of its own; the response also notes
\* whether a rebuild transaction was open when the query ran
Search(u, query, limit) ==
    /\ \E o \in SearchQuestions(study_books, questions, IndexSeen, query, u, limit) :
          last' = Resp("search", u, <<query, limit, rebuild.pc>>, o.status, o.results)
    /\ UNCHANGED <<store, ids, rebuild, deleteRequested, fts_table, cache, clock, journal>>

\* rebuild_index, first half: the 'rebuild' command empties the index
\* inside the transaction the statement opened
RebuildBegin ==
    /\ rebuild.pc = "idle"
    /\ rebuild' = [pc |-> "emptied", pre |-> fts_index, work |-> {}]
    /\ UNCHANGED <<store, ids, deleteRequested, fts_table, last, cache, clock, journal>>

\* rebuild_index, second half: the scan of the content table; when it
\* cannot be prepared the statement fails, the connection rolls back and
\* SearchIndexError is raised, else the recomputed index is committed
RebuildFinish ==
    /\ rebuild.pc = "emptied"
    /\ LET idx == IF IndexAvailable /\ ContentReadable THEN RebuiltIndex(questions)
                  ELSE RolledBack(rebuild.pre, rebuild.work)
           st  == IF IndexAvailable /\ ContentReadable THEN "ok" ELSE SearchIndexError(Message)
       IN  /\ fts_index' = idx
           \* the response also counts the rebuilds run in a row, nothing
           \* else having been requested in between, and keeps the index
           \* the first of them left
           /\ last' = IF last.op = "rebuild"
                       THEN Resp("rebuild", "u1", Min2(last.arg + 1, MaxRebuildRun),
                                 st, last.out)
                       ELSE Resp("rebuild", "u1", 1, st, <<idx>>)
    /\ rebuild' = [pc |-> "idle", pre |-> {}, work |-> {}]
    /\ UNCHANGED <<users, study_books, questions, ids, deleteRequested, fts_table, cache, clock, journal>>

\* GET /search/questions answered from rows the strategy can read, the
\* default limit included
SearchReadable(u, query, limit) ==
    /\ \E o \in SearchEndpointReadable(study_books, questions, fts_index,
                                       query, u, limit) :
          last' = Resp("search_readable", u, <<query, limit>>, o.status, o.results)
    /\ UNCHANGED <<store, ids, rebuild, deleteRequested, fts_table, cache, clock, journal>>

SearchReadableDefault(u, query) == SearchReadable(u, query, DefaultLimit)

\* GET /api/v1/search/questions
SearchRequest(u, q, limit) ==
    /\ \E o \in SearchEndpoint(study_books, questions, IndexSeen, q, u, limit) :
          last' = Resp("search_request", u,
                       [q |-> q, limit |-> limit, calls |-> o.calls],
                       o.status, o.results)
    /\ UNCHANGED <<store, ids, rebuild, deleteRequested, fts_table, cache, clock, journal>>

\* the same request without a limit parameter
SearchRequestDefault(u, q) == SearchRequest(u, q, DefaultLimit)

\* the index storage is lost: questions_fts no longer exists, the triggers
\* on questions remain
IndexLost ==
    /\ WriterFree
    /\ fts_table = "present"
    /\ fts_table' = "missing"
    /\ fts_index' = {}
    /\ last' = Resp("index_lost", "u1", 0, "ok", <<>>)
    /\ UNCHANGED <<users, study_books, questions, ids, rebuild, deleteRequested, cache, clock, journal>>

(* ------------------------------- listing ------------------------------- *)
\* ORDER BY created_at [DESC]: every order of the rows the sort allows (rows
\* of equal created_at come in no defined order)
SortedByCreatedAt(rows, descending) ==
    LET n == Cardinality(rows)
    IN  {f \in [1..n -> rows] :
           /\ \A i, j \in 1..n : i # j => f[i] # f[j]
           /\ \A i, j \in 1..n : i < j =>
                 IF descending THEN f[i].created_at >= f[j].created_at
                 ELSE f[i].created_at <= f[j].created_at}

\* if offset: query.offset(offset); if limit: query.limit(limit)
Page(rows, limit, offset) ==
    SubSeq(rows, offset + 1,
           IF limit = 0 THEN Len(rows) ELSE Min2(Len(rows), offset + limit))

\* limit and offset as passed to the repositories; 0 stands for None as well
ListLimits == {0, 1}
ListOffsets == {0, 1}

\* SQLAlchemyStudyBookRepository.get_by_user_id:
\* order_by(desc(StudyBookModel.created_at))
StudyBookGetByUserId(bs, u, limit, offset) ==
    {Page(f, limit, offset) :
       f \in SortedByCreatedAt({b \in bs : b.user_id = u}, TRUE)}

\* SQLAlchemyQuestionRepository.get_by_study_book_id:
\* order_by(QuestionModel.created_at)
QuestionGetByStudyBookId(bs, qs, b, u, limit, offset) ==
    {Page(f, limit, offset) :
       f \in SortedByCreatedAt(
                {q \in qs : /\ q.study_book_id = b
                            /\ \E sb \in bs : sb.id = b /\ sb.user_id = u}, FALSE)}

\* time passes between two requests
Tick ==
    /\ clock < MaxClock
    /\ clock' = clock + 1
    /\ UNCHANGED <<store, ids, rebuild, deleteRequested, fts_table, last, cache,
                   journal>>

\* get_study_books
StudyBookList(u, limit, offset) ==
    /\ \E page \in StudyBookGetByUserId(study_books, u, limit, offset) :
          last' = Resp("list_study_books", u, <<limit, offset>>, "ok", page)
    /\ UNCHANGED <<store, ids, rebuild, deleteRequested, fts_table, cache, clock, journal>>

\* get_questions_by_study_book: 404 unless the study book is the requester's
QuestionList(u, b, limit, offset) ==
    /\ IF StudyBookGetById(study_books, b, u) = NoEntity
       THEN last' = Resp("list_questions", u, <<limit, offset, b>>, "not_found", <<>>)
       ELSE \E page \in QuestionGetByStudyBookId(study_books, questions, b, u,
                                                limit, offset) :
               last' = Resp("list_questions", u, <<limit, offset, b>>, "ok", page)
    /\ UNCHANGED <<store, ids, rebuild, deleteRequested, fts_table, cache, clock, journal>>

(* -------------------- system problems service calls -------------------- *)
\* Every call runs to its end without giving up the event loop: the lock is
\* free when it is taken and _load_cache_async awaits nothing, so a call is
\* one step and concurrent callers are calls in any order.

\* the state of the database part, which no service call touches
database == <<users, study_books, questions, fts_index, fts_table, usedBookIds,
              usedQuestionIds, rebuild, deleteRequested, last, clock,
              user_rows, auth, typing_logs, learning_events>>

\* get_system_problems_service: a new CachedSystemProblemsService
GetSystemProblemsService(self) ==
    /\ self \notin DOMAIN services
    /\ services' = services @@ (self :> NewService)
    /\ load_calls' = load_calls @@ (self :> 0)
    /\ reply' = Reply("get_system_problems_service", self, <<>>, "ok", <<>>, 0)
    /\ UNCHANGED <<lru_problems, lru_languages, clear_calls, kept, database>>

\* get_problems_by_language; the caller may keep the response
GetProblemsByLanguage(self, language, keep) ==
    /\ self \in DOMAIN services
    /\ LET e == EnsureCacheLoaded(services[self])
           normalized_lang == NormalizeLanguage(language)
       IN  \E o \in GetProblemsByLanguageCached(lru_problems, e.svc, self,
                                               normalized_lang) :
              /\ services' = [services EXCEPT ![self] = e.svc]
              /\ load_calls' = [load_calls EXCEPT ![self] = @ + e.loads]
              /\ lru_problems' = o.lru
              /\ reply' = Reply("get_problems_by_language", self, language,
                                o.status, o.out, e.loads)
              /\ kept' = IF keep THEN Kept(reply', clear_calls) ELSE kept
    /\ UNCHANGED <<lru_languages, clear_calls, database>>

\* get_available_languages
GetAvailableLanguages(self) ==
    /\ self \in DOMAIN services
    /\ LET e == EnsureCacheLoaded(services[self])
       IN  \E o \in GetAvailableLanguagesCached(lru_languages, e.svc, self) :
              /\ services' = [services EXCEPT ![self] = e.svc]
              /\ load_calls' = [load_calls EXCEPT ![self] = @ + e.loads]
              /\ lru_languages' = o.lru
              /\ reply' = Reply("get_available_languages", self, <<>>,
                                o.status, o.out, e.loads)
    /\ UNCHANGED <<lru_problems, clear_calls, kept, database>>

\* clear_cache: the three fields of the service, and both lru stores of the
\* class (cache_clear() empties them for every service)
ClearCache(self) ==
    /\ self \in DOMAIN services
    /\ clear_calls < MaxClears
    /\ services' = [services EXCEPT ![self] = ClearedService]
    /\ lru_problems' = {}
    /\ lru_languages' = {}
    /\ clear_calls' = clear_calls + 1
    /\ reply' = Reply("clear_cache", self, <<>>, "ok", <<>>, 0)
    /\ UNCHANGED <<load_calls, kept, database>>

\* warm_cache
WarmCache(self) ==
    /\ self \in DOMAIN services
    /\ LET e == EnsureCacheLoaded(services[self])
       IN  \E lp \in WarmProblems(lru_problems, e.svc, self, CommonLanguages) :
           \E o \in GetAvailableLanguagesCached(lru_languages, e.svc, self) :
              /\ services' = [services EXCEPT ![self] = e.svc]
              /\ load_calls' = [load_calls EXCEPT ![self] = @ + e.loads]
              /\ lru_problems' = lp
              /\ lru_languages' = o.lru
              /\ reply' = Reply("warm_cache", self, <<>>, o.status, <<>>, e.loads)
    /\ UNCHANGED <<clear_calls, kept, database>>

(* --------------------------- authentication --------------------------- *)
\* default_email in get_current_user_id
DefaultEmail == <<"test@example.com">>
DefaultName == <<"Test User">>

\* MockAuthenticationService.create_user: name and email are checked, the
\* email normalized and looked up, and the user stored under a new uuid4;
\* every rejection is a raise ValidationError(message)
CreateUser(rows, id, name, email) ==
    IF StripName(name) = <<>> \/ StripName(email) = <<>>
    THEN [status |-> ValidationError(Message), rows |-> rows]
    ELSE IF UserGetByEmail(rows, NormalizeEmail(email)) # {}
    THEN [status |-> ValidationError(Message), rows |-> rows]
    ELSE UserRepoCreate(rows, id, NormalizeEmail(email))

\* POST /users/signup: the endpoint answers ValidationError with 400; any
\* other exception leaves it as it is
Signup(id, name, email) ==
    /\ WriterFree
    /\ id \notin users
    /\ LET c == CreateUser(user_rows, id, name, email)
       IN  /\ user_rows' = c.rows
           /\ users' = {row.id : row \in c.rows}
           /\ last' = Resp("signup", id, email, c.status, <<>>)
    /\ UNCHANGED <<study_books, questions, fts_index, ids, rebuild,
                   deleteRequested, fts_table, cache, clock, auth, logs>>

\* get_current_user_id with an X-User-Id header that is a uuid, first
\* half: user_repository.get_by_id.  The dependency is a plain def, which
\* FastAPI runs in a thread of its pool, so the calls of two requests
\* interleave.
AuthLookup(r, u) ==
    /\ auth[r].pc = "idle"
    /\ auth' = [auth EXCEPT ![r] = [pc |-> "header", user |-> u,
                                    found |-> u \in users]]
    /\ UNCHANGED <<store, ids, rebuild, deleteRequested, fts_table, last, cache,
                   clock, user_rows, logs>>

\* get_current_user_id without a header, first half:
\* user_repository.get_by_email(default_email)
AuthDefaultLookup(r) ==
    /\ auth[r].pc = "idle"
    /\ LET existing == UserGetByEmail(user_rows, DefaultEmail)
       IN  auth' = [auth EXCEPT ![r] =
                      IF existing = {}
                      THEN [pc |-> "default", user |-> "u1", found |-> FALSE]
                      ELSE [pc |-> "default",
                            user |-> (CHOOSE row \in existing : TRUE).id,
                            found |-> TRUE]]
    /\ UNCHANGED <<store, ids, rebuild, deleteRequested, fts_table, last, cache,
                   clock, user_rows, logs>>

\* get_current_user_id, second half: the id of the user found, else the id
\* of the user created (with the header's id, or by create_user)
AuthReturn(r, id) ==
    /\ auth[r].pc \in {"header", "default"}
    /\ WriterFree
    \* uuid4() gives an id no user has
    /\ (auth[r].pc = "default" /\ ~auth[r].found) => id \notin users
    /\ LET a == auth[r]
           c == IF a.found THEN [status |-> "ok", rows |-> user_rows]
                ELSE IF a.pc = "header"
                THEN UserRepoCreate(user_rows, a.user, AutoEmail(a.user))
                ELSE CreateUser(user_rows, id, DefaultName, DefaultEmail)
       IN  /\ user_rows' = c.rows
           /\ users' = {row.id : row \in c.rows}
           /\ last' = Resp("get_current_user_id",
                           IF a.found \/ a.pc = "header" THEN a.user ELSE id,
                           <<r, a.pc>>, c.status, <<>>)
    /\ auth' = [auth EXCEPT ![r] = AuthIdle]
    /\ UNCHANGED <<study_books, questions, fts_index, ids, rebuild,
                   deleteRequested, fts_table, cache, clock, logs>>

\* get_current_user_id with a header that is no uuid: UUID() raises
\* ValueError, answered by raise ValidationError("user_id", header, message)
AuthBadHeader(r) ==
    /\ auth[r].pc = "idle"
    /\ last' = Resp("get_current_user_id", "u1", <<r, "bad">>,
                    ValidationError(<<"user_id", "header", "message">>), <<>>)
    /\ UNCHANGED <<store, ids, rebuild, deleteRequested, fts_table, cache, clock,
                   journal>>

(* ------------------------ typing logs and events ----------------------- *)
\* action of LearningEventCreateRequest
Actions == {"a1", "a2"}
\* action of get_learning_events
ActionFilters == {Absent} \cup {Given(a) : a \in Actions}
\* page and limit of the two paginated lists
Pages == {1, 2}
PageLimits == {1}
\* order_by(desc(LearningEventModel.occurred_at)): every order of the rows
\* the sort allows
SortedByOccurredAt(rows) ==
    LET n == Cardinality(rows)
    IN  {f \in [1..n -> rows] :
           /\ \A i, j \in 1..n : i # j => f[i] # f[j]
           /\ \A i, j \in 1..n : i < j => f[i].occurred_at >= f[j].occurred_at}

\* SQLAlchemyTypingLogRepository.get_by_user_id
TypingLogGetByUserId(ls, u, limit, offset) ==
    {Page(f, limit, offset) :
       f \in SortedByCreatedAt({l \in ls : l.user_id = u}, TRUE)}

\* SQLAlchemyTypingLogRepository.get_by_question_id: filter on the log's
\* question_id and the log's user_id
TypingLogGetByQuestionId(bs, qs, ls, question_id, u, limit, offset) ==
    {Page(f, limit, offset) :
       f \in SortedByCreatedAt(
                {l \in ls : l.question_id = Given(question_id) /\ l.user_id = u},
                TRUE)}

\* SQLAlchemyTypingLogRepository.count_by_user_id
TypingLogCountByUserId(ls, u) == Cardinality({l \in ls : l.user_id = u})

\* SQLAlchemyLearningEventRepository.get_by_user_id
LearningEventGetByUserId(es, u, limit, offset) ==
    {Page(f, limit, offset) : f \in SortedByOccurredAt({e \in es : e.user_id = u})}

\* SQLAlchemyLearningEventRepository.get_by_action
LearningEventGetByAction(es, u, action, limit, offset) ==
    {Page(f, limit, offset) :
       f \in SortedByOccurredAt({e \in es : e.user_id = u /\ e.action = action})}

\* SQLAlchemyLearningEventRepository.count_by_user_id
LearningEventCountByUserId(es, u) == Cardinality({e \in es : e.user_id = u})

\* create_typing_log: 404 when the request names a question that
\* get_by_id does not return for the requester; the id is a fresh uuid4
CreateTypingLog(u, request) ==
    /\ LET id == Max({l.id : l \in typing_logs}) + 1
       IN  /\ id <= MaxLogs
           /\ IF /\ request.question_id # Absent
                 /\ QuestionGetById(study_books, questions,
                                    ValueOf(request.question_id), u) = NoEntity
              THEN /\ last' = Resp("create_typing_log", u, request, "not_found", <<>>)
                   /\ UNCHANGED typing_logs
              ELSE LET row == [id |-> id, user_id |-> u,
                               question_id |-> request.question_id,
                               created_at |-> clock]
                   IN  /\ typing_logs' = typing_logs \cup {row}
                       /\ last' = Resp("create_typing_log", u, request, "ok", <<row>>)
    /\ UNCHANGED <<store, ids, rebuild, deleteRequested, fts_table, cache, clock,
                   user_rows, auth, learning_events>>

\* get_typing_logs: offset = (page - 1) * limit, the page of the filtered
\* logs, total_count = count_by_user_id(user_id),
\* has_next = (offset + len(items)) < total_count
GetTypingLogs(u, page, limit, question_id) ==
    /\ LET offset == (page - 1) * limit
           total_count == TypingLogCountByUserId(typing_logs, u)
       IN  \E items \in (IF question_id # Absent
                          THEN TypingLogGetByQuestionId(study_books, questions,
                                  typing_logs, ValueOf(question_id), u, limit, offset)
                          ELSE TypingLogGetByUserId(typing_logs, u, limit, offset)) :
              last' = Resp("get_typing_logs", u,
                           [page |-> page, limit |-> limit, filter |-> question_id],
                           "ok",
                           [items |-> items, total_count |-> total_count,
                            has_next |-> (offset + Len(items)) < total_count,
                            has_previous |-> page > 1])
    /\ UNCHANGED <<store, ids, rebuild, deleteRequested, fts_table, cache, clock,
                   journal>>

\* create_learning_event: the user_id is the requester's, the id a fresh
\* uuid4
CreateLearningEvent(u, action) ==
    /\ LET id == Max({e.id : e \in learning_events}) + 1
       IN  /\ id <= MaxLogs
           /\ LET row == [id |-> id, user_id |-> u, action |-> action,
                          occurred_at |-> clock]
              IN  /\ learning_events' = learning_events \cup {row}
                  /\ last' = Resp("create_learning_event", u, action, "ok", <<row>>)
    /\ UNCHANGED <<store, ids, rebuild, deleteRequested, fts_table, cache, clock,
                   user_rows, auth, typing_logs>>

\* get_learning_events: the page of get_by_action or get_by_user_id,
\* total_count = count_by_user_id(user_id_str),
\* has_next = (offset + len(items)) < total_count
GetLearningEvents(u, page, limit, action) ==
    /\ LET offset == (page - 1) * limit
           total_count == LearningEventCountByUserId(learning_events, u)
       IN  \E items \in (IF action # Absent
                          THEN LearningEventGetByAction(learning_events, u,
                                  ValueOf(action), limit, offset)
                          ELSE LearningEventGetByUserId(learning_events, u,
                                  limit, offset)) :
              last' = Resp("get_learning_events", u,
                           [page |-> page, limit |-> limit, filter |-> action],
                           "ok",
                           [items |-> items, total_count |-> total_count,
                            has_next |-> (offset + Len(items)) < total_count,
                            has_previous |-> page > 1])
    /\ UNCHANGED <<store, ids, rebuild, deleteRequested, fts_table, cache, clock,
                   journal>>

(* --------------------------- specifications --------------------------- *)
\* the operations that read or write questions or questions_fts
Next == \/ \E u \in Users, id \in BookIds : StudyBookCreate(u, id, "t1")
        \/ \E u \in Users, id \in BookIds : StudyBookDelete(u, id)
        \/ \E u \in Users, b \in BookIds, id \in QuestionIds, q \in Texts, a \in Answers :
              QuestionCreate(u, b, id, q, a)
        \/ \E u \in Users, id \in QuestionIds, a \in Answers :
              QuestionUpdate(u, id, <<"beta">>, a)
        \/ \E u \in Users, id \in QuestionIds : QuestionDeleteLogged(u, id)
        \/ \E u \in Users, query \in Queries, limit \in Limits : Search(u, query, limit)
        \/ RebuildBegin
        \/ RebuildFinish

Spec == Init /\ [][Next]_vars

\* the repositories of study books and questions, every method
NextRepo == \/ \E u \in Users, id \in BookIds, t \in Titles : StudyBookCreate(u, id, t)
            \/ \E u \in Users, id \in BookIds : StudyBookGet(u, id)
            \/ \E u \in Users, id \in BookIds, t \in Titles : StudyBookUpdate(u, id, t)
            \/ \E u \in Users, id \in BookIds : StudyBookDelete(u, id)
            \/ \E u \in Users, b \in BookIds, id \in QuestionIds, q \in Texts, a \in Answers :
                  QuestionCreate(u, b, id, q, a)
            \/ \E u \in Users, id \in QuestionIds : QuestionGet(u, id)
            \/ \E u \in Users, id \in QuestionIds, q \in Texts, a \in Answers :
                  QuestionUpdate(u, id, q, a)
            \/ \E u \in Users, id \in QuestionIds : QuestionDelete(u, id)

SpecRepo == Init /\ [][NextRepo]_vars

\* the deletes of users and study books, with the creates they need
NextUsers == \/ \E u \in Users : UserCreate(u)
             \/ \E u \in Users : UserDelete(u)
             \/ \E u \in Users, id \in BookIds : StudyBookCreate(u, id, "t1")
             \/ \E u \in Users, id \in BookIds : StudyBookDelete(u, id)
             \/ \E u \in Users, b \in BookIds, id \in QuestionIds, q \in Texts, a \in Answers :
                   QuestionCreate(u, b, id, q, a)

SpecUsers == Init /\ [][NextUsers]_vars
\* the ranking and mapping of the rows of a search
NextRank == \/ \E u \in Users, id \in BookIds : StudyBookCreate(u, id, "t1")
            \/ \E u \in Users, b \in BookIds, id \in QuestionIds, q \in Texts, a \in Answers :
                  QuestionCreate(u, b, id, q, a)
            \/ \E u \in Users, query \in RankQueries, limit \in RankLimits :
                  SearchReadable(u, query, limit)
            \/ \E u \in Users, query \in RankQueries : SearchReadableDefault(u, query)

SpecRank == Init /\ [][NextRank]_vars

\* search_questions with queries of one and of several words
NextWords == \/ \E u \in Users, id \in BookIds : StudyBookCreate(u, id, "t1")
             \/ \E u \in Users, b \in BookIds, id \in QuestionIds, q \in Texts, a \in Answers :
                   QuestionCreate(u, b, id, q, a)
             \/ \E u \in Users, query \in RankQueries, limit \in Limits :
                   Search(u, query, limit)

SpecWords == Init /\ [][NextWords]_vars

\* the search endpoint and the question endpoints, the index being present
\* or lost
NextSearch == \/ \E u \in Users, id \in BookIds : StudyBookCreate(u, id, "t1")
              \/ \E u \in Users, b \in BookIds, id \in QuestionIds, q \in Texts, a \in Answers :
                    QuestionCreate(u, b, id, q, a)
              \/ \E u \in Users, id \in QuestionIds : QuestionGet(u, id)
              \/ \E u \in Users, id \in QuestionIds, q \in Texts, a \in Answers :
                    QuestionUpdate(u, id, q, a)
              \/ \E u \in Users, id \in QuestionIds : QuestionDelete(u, id)
              \/ \E u \in Users, q \in ApiQueries, limit \in ApiLimits :
                    SearchRequest(u, q, limit)
              \/ \E u \in Users, q \in ApiQueries : SearchRequestDefault(u, q)
              \/ IndexLost
              \/ RebuildBegin
              \/ RebuildFinish

SpecSearch == Init /\ [][NextSearch]_vars

\* the system problems services of one process: requests construct them and
\* call them in any order
NextCache == \/ \E self \in Instances : GetSystemProblemsService(self)
             \/ \E self \in Instances, language \in Names, keep \in BOOLEAN :
                   GetProblemsByLanguage(self, language, keep)
             \/ \E self \in Instances : GetAvailableLanguages(self)
             \/ \E self \in Instances : ClearCache(self)
             \/ \E self \in Instances : WarmCache(self)

SpecCache == Init /\ [][NextCache]_vars

\* listing beside creation, while time passes
NextList == \/ \E u \in Users, id \in BookIds : StudyBookCreate(u, id, "t1")
            \/ \E u \in Users, b \in BookIds, id \in QuestionIds :
                  QuestionCreate(u, b, id, <<"alpha">>, <<"gamma">>)
            \/ Tick
            \/ \E u \in Users, limit \in ListLimits, offset \in ListOffsets :
                  StudyBookList(u, limit, offset)
            \/ \E u \in Users, b \in BookIds, limit \in ListLimits, offset \in ListOffsets :
                  QuestionList(u, b, limit, offset)

SpecList == Init /\ [][NextList]_vars

\* the update endpoints beside creation and deletion
NextUpdate == \/ \E u \in Users, id \in BookIds : StudyBookCreate(u, id, "t1")
              \/ \E u \in Users, id \in BookIds, request \in StudyBookUpdateRequests :
                    UpdateStudyBook(u, id, request)
              \/ \E u \in Users, id \in BookIds : StudyBookDelete(u, id)
              \/ \E u \in Users, b \in BookIds, id \in QuestionIds :
                    QuestionCreate(u, b, id, <<"alpha">>, <<"gamma">>)
              \/ \E u \in Users, id \in QuestionIds, request \in QuestionUpdateRequests :
                    UpdateQuestion(u, id, request)

SpecUpdate == Init /\ [][NextUpdate]_vars

\* the repositories' update called with entities of any content, beside
\* creation and deletion
NextOwner == \/ \E u \in Users, id \in BookIds : StudyBookCreate(u, id, "t1")
             \/ \E entity \in StudyBookEntities : StudyBookRepositoryUpdate(entity)
             \/ \E u \in Users, id \in BookIds : StudyBookDelete(u, id)
             \/ \E u \in Users, b \in BookIds, id \in QuestionIds :
                   QuestionCreate(u, b, id, <<"alpha">>, <<"gamma">>)
             \/ \E entity \in QuestionEntities, u \in Users :
                   QuestionRepositoryUpdate(entity, u)

SpecOwner == Init /\ [][NextOwner]_vars

\* signup and the authentication of requests, two requests at a time
NextAuth == \/ \E id \in SignupIds, name \in SignupNames, email \in Emails :
                  Signup(id, name, email)
            \/ \E r \in Requests, u \in Users : AuthLookup(r, u)
            \/ \E r \in Requests : AuthDefaultLookup(r)
            \/ \E r \in Requests, id \in SignupIds : AuthReturn(r, id)
            \/ \E r \in Requests : AuthBadHeader(r)

SpecAuth == Init /\ [][NextAuth]_vars

\* every operation that writes a table a typing log or a learning event
\* refers to, and the creation of logs and events
NextFrame == \/ \E u \in Users : StudyBookCreate(u, 1, "t1")
             \/ \E u \in Users : StudyBookDelete(u, 1)
             \/ \E u \in Users : QuestionCreate(u, 1, 1, <<"alpha">>, <<"gamma">>)
             \/ \E u \in Users : QuestionUpdate(u, 1, <<"beta">>, <<"gamma">>)
             \/ \E u \in Users : QuestionDelete(u, 1)
             \/ \E u \in Users : UserDelete(u)
             \/ \E u \in Users, request \in [question_id : {Absent, Given(1)}] :
                   CreateTypingLog(u, request)
             \/ \E u \in Users : CreateLearningEvent(u, "a1")

SpecFrame == Init /\ [][NextFrame]_vars

\* the typing logs and learning events of two users, the questions being
\* those of the one study book of user u1
NextLogs == \/ StudyBookCreate("u1", 1, "t1")
            \/ StudyBookDelete("u1", 1)
            \/ QuestionCreate("u1", 1, 1, <<"alpha">>, <<"gamma">>)
            \/ \E u \in Users, request \in [question_id : {Absent, Given(1)}] :
                  CreateTypingLog(u, request)
            \/ \E u \in Users, page \in Pages, limit \in PageLimits :
                  \E question_id \in {Absent, Given(1)} :
                     GetTypingLogs(u, page, limit, question_id)
            \/ \E action \in Actions : CreateLearningEvent("u1", action)
            \/ \E page \in Pages, limit \in PageLimits, action \in ActionFilters :
                  GetLearningEvents("u1", page, limit, action)

SpecLogs == Init /\ [][NextLogs]_vars

(* ------------------------------ properties ----------------------------- *)
\* A response stays in last until the next request is answered, and every
\* request that writes the store is answered, so while last holds the
\* response of a read the store is the one the read ran on.

OwnBooks(u) == {b \in study_books : b.user_id = u}
OwnQuestions(u) == {q \in questions : \E b \in OwnBooks(u) : b.id = q.study_book_id}
OwnIndex(u) == {e \in fts_index : \E q \in OwnQuestions(u) : q.id = e.question_id}
OwnWords(u) == UNION {Tokenize(q.question) \cup Tokenize(q.answer) : q \in OwnQuestions(u)}
ForeignBook(u, id) == \E b \in study_books : b.id = id /\ b.user_id # u
ForeignQuestion(u, id) ==
    \E q \in questions :
        q.id = id /\ \E b \in study_books : b.id = q.study_book_id /\ b.user_id # u
Outcome(r) == [status |-> r.status, results |-> r.out]

\* C1: a search never returns an item of a study book of another user, and
\* a search for words that occur in none of the requester's own items
\* (though they occur in another user's) succeeds with zero matches
C1_NoCrossUserLeak ==
    (last.op = "search" /\ ValidSearch(last.arg[1], last.arg[2])) =>
        /\ \A i \in DOMAIN last.out :
              \E q \in OwnQuestions(last.user) : q.id = last.out[i].question_id
        /\ PrepareFtsQuery(last.arg[1]) \cap OwnWords(last.user) = {}
              => last.status = "ok" /\ last.out = <<>>

C3_GetIndistinguishable ==
    /\ (last.op = "get_study_book" /\ ForeignBook(last.user, last.arg)) =>
          LET r == StudyBookGetResult({b \in study_books : b.id # last.arg},
                                      last.arg, last.user)
          IN  last.status = r.status /\ last.out = r.out
    /\ (last.op = "get_question" /\ ForeignQuestion(last.user, last.arg)) =>
          LET r == QuestionGetResult(study_books,
                                     {q \in questions : q.id # last.arg},
                                     last.arg, last.user)
          IN  last.status = r.status /\ last.out = r.out

C3_Witness ==
    /\ last.op = "get_study_book"
    /\ ForeignBook(last.user, last.arg)
    /\ last.status = "not_found"

C5_RowAndIndexAtomic ==
    [][ (/\ last'.op \in {"create_question", "update_question", "delete_question"}
         /\ last'.status \notin {"ok", "not_found"})
           => questions' = questions /\ fts_index' = fts_index ]_vars

C5_Witness ==
    /\ last.op = "update_question"
    /\ last.status \notin {"ok", "not_found"}
    /\ \E e \in fts_index : e.question_id = last.arg

\* C6: no stored question references a study book that is not stored; a
\* deleted study book leaves none of its questions and index entries; a
\* deleted user leaves none of their study books
C6_CascadeDelete ==
    /\ \A q \in questions : \E b \in study_books : b.id = q.study_book_id
    /\ (last.op = "delete_study_book" /\ last.status = "ok") =>
          /\ \A q \in questions : q.study_book_id # last.arg
          /\ \A e \in fts_index : \E q \in questions : q.id = e.question_id
    /\ (last.op = "delete_user" /\ last.status = "ok") =>
          \A b \in study_books : b.user_id # last.user

\* C7: once its owner has deleted a question, a search for words that only
\* that question holds succeeds with zero results, also after rebuilds
C7_DeletedNeverFound ==
    (/\ last.op = "search"
     /\ ValidSearch(last.arg[1], last.arg[2])
     /\ \E d \in deleteRequested :
          /\ PrepareFtsQuery(last.arg[1])
               \subseteq Tokenize(d.question) \cup Tokenize(d.answer)
          /\ \A q \in questions :
               q.id # d.id =>
                 PrepareFtsQuery(last.arg[1])
                   \cap (Tokenize(q.question) \cup Tokenize(q.answer)) = {})
      => last.status = "ok" /\ last.out = <<>>

C10_Noninterference ==
    last.op = "search" =>
        Outcome(last) \in
            SearchQuestions(OwnBooks(last.user), OwnQuestions(last.user),
                            OwnIndex(last.user), last.arg[1], last.user,
                            last.arg[2])

C14_IndexErrorDistinct ==
    fts_table = "missing" =>
        /\ (/\ last.op = "search_request"
            /\ last.arg.calls # <<>>
            /\ ValidSearch(Strip(last.arg.q).words, last.arg.limit))
              => last.status = "index_error"
        /\ last.op = "rebuild" => last.status = "index_error"

\* C15: with the index missing, create, get, update and delete of a
\* question still succeed (a create fails only for an id already stored, an
\* operation on a question the requester does not own is answered
\* not-found)
C15_CrudWithoutIndex ==
    (/\ fts_table = "missing"
     /\ last.op \in {"create_question", "get_question", "update_question",
                     "delete_question"})
      => \/ last.status \in {"ok", "not_found"}
         \/ /\ last.op = "create_question"
            /\ \E q \in questions : q.id = last.arg

\* C16: before a search returns the index-unavailable failure the endpoint
\* has attempted one rebuild and retried the search once
C16_AutoRebuildOnce ==
    (/\ last.op = "search_request"
     /\ last.arg.calls # <<>>
     /\ last.status # "ok") =>
        last.arg.calls = <<"search_questions", "rebuild_index", "search_questions">>

\* C17: a search whose query is empty or only whitespace is rejected with a
\* validation failure, and no index query is made for it
C17_EmptyQueryRejected ==
    (last.op = "search_request" /\ Strip(last.arg.q).chars = 0) =>
        /\ last.status = "validation_error"
        /\ last.out = <<>>

\* C18: a query of trimmed length 1 to 500 is accepted by search, one of
\* trimmed length above 500 is rejected with a validation failure
C18_QueryLengthBounds ==
    (/\ last.op = "search_request"
     /\ last.arg.limit >= 1
     /\ last.arg.limit <= MaxLimit)
      => /\ (/\ Strip(last.arg.q).chars >= 1
             /\ Strip(last.arg.q).chars <= SearchQueryMaxLength)
               => last.status # "validation_error"
         /\ Strip(last.arg.q).chars > SearchQueryMaxLength
               => last.status = "validation_error"

C20_NoMatchIsSuccess ==
    (/\ last.op = "search_request"
     /\ IndexAvailable
     /\ last.arg.calls # <<>>
     /\ ValidSearch(Strip(last.arg.q).words, last.arg.limit)
     /\ PrepareFtsQuery(Strip(last.arg.q).words) \cap OwnWords(last.user) = {})
      => last.status = "ok" /\ Len(last.out) = 0

\* C21: a search with several words matches with OR semantics: a question
\* of the requester is returned whenever at least one word of the query
\* occurs in its indexed question or answer (as far as the limit admits
\* all such questions)
C21_AnyTokenMatches ==
    (/\ last.op = "search"
     /\ Len(last.arg[1]) > 1
     /\ ValidSearch(last.arg[1], last.arg[2])) =>
        LET own == {e \in OwnIndex(last.user) :
                      (Tokenize(e.question) \cup Tokenize(e.answer))
                          \cap Tokenize(last.arg[1]) # {}}
        IN  Cardinality(own) <= last.arg[2] =>
               \A e \in own : \E i \in DOMAIN last.out :
                                 last.out[i].question_id = e.question_id

RECURSIVE SumLoads(_)
SumLoads(S) ==
    IF S = {} THEN 0
    ELSE LET self == CHOOSE x \in S : TRUE
         IN  load_calls[self] + SumLoads(S \ {self})

Populated(svc) == svc.problems_cache.some /\ svc.languages_cache.some
Lookup(r) == r.op = "get_problems_by_language"

C24_LoadedOncePerProcess ==
    clear_calls = 0 => SumLoads(DOMAIN load_calls) <= 1

\* C25: a lookup running in any order with clearCache and warmCache calls
\* never fails and is answered from a fully loaded cache (the result before
\* the clear and the result after the reload), and no state has a cache of
\* which only part is cleared
C25_NoHalfClearedState ==
    /\ \A self \in DOMAIN services :
          /\ services[self].problems_cache.some <=> services[self].languages_cache.some
          /\ services[self].problems_cache.some
                <=> services[self].cache_timestamp # "None"
    /\ \A e \in lru_problems \cup lru_languages : Populated(services[e.self])
    /\ reply.op \in {"get_problems_by_language", "get_available_languages",
                     "warm_cache"}
          => reply.status = "ok" /\ Populated(services[reply.self])

C25_Witness ==
    /\ Lookup(reply)
    /\ reply.status = "ok" /\ reply.out # <<>>
    /\ reply.loads = 1
    /\ load_calls[reply.self] > 1
    /\ \E self \in DOMAIN services : ~Populated(services[self])

\* C26: after any sequence of clearCache and warmCache calls a lookup
\* returns what a lookup of the same name returned before the sequence,
\* and a populated cache holds the same content
C26_SameContentAfterClearWarm ==
    /\ (Lookup(reply) /\ Lookup(kept) /\ kept.name = reply.name)
          => reply.status = kept.status /\ reply.out = kept.out
    /\ \A self \in DOMAIN services :
          Populated(services[self]) => services[self] = LoadCacheAsync(NewService)

C26_Witness ==
    /\ Lookup(reply) /\ Lookup(kept)
    /\ kept.name = reply.name
    /\ reply.out # <<>>
    /\ kept.clears < clear_calls
    /\ \E e \in lru_problems : e.self = reply.self /\ e.key = <<"s", "q", "l">>

C28_NormalizedNamesAgree ==
    (/\ Lookup(reply) /\ Lookup(kept)
     /\ LowerAll(StripName(kept.name)) = LowerAll(StripName(reply.name)))
        => reply.status = kept.status /\ reply.out = kept.out

C28_Witness ==
    /\ Lookup(reply) /\ Lookup(kept)
    /\ kept.name # reply.name
    /\ LowerAll(StripName(kept.name)) = LowerAll(StripName(reply.name))
    /\ reply.out # <<>>

\* the rows a listing is about
Listed(r) ==
    IF r.op = "list_study_books" THEN OwnBooks(r.user)
    ELSE {q \in OwnQuestions(r.user) : q.study_book_id = r.arg[3]}

\* C29: a listing returns the requester's entities ordered by creation
\* time descending, rows of equal creation time ordered by id (in one
\* direction throughout), cut to the page asked for, so that repeating the
\* call on the same data gives the same page
C29_ListNewestFirstById ==
    (last.op \in {"list_study_books", "list_questions"} /\ last.status = "ok") =>
        \E up \in BOOLEAN :
           \E f \in SortedByCreatedAt(Listed(last), TRUE) :
              /\ \A i, j \in DOMAIN f :
                    (i < j /\ f[i].created_at = f[j].created_at) =>
                       IF up THEN f[i].id < f[j].id ELSE f[i].id > f[j].id
              /\ last.out = Page(f, last.arg[1], last.arg[2])

\* C30: delete(id, user) returns true exactly when an entity with the id
\* owned by the user existed, and a get for the id then reports not-found;
\* it returns false and changes nothing when the id is absent or owned by
\* another user, a repeated delete of the same id included
C30_DeleteReportsOwned ==
    [][last'.op \in {"delete_study_book", "delete_question"} =>
         LET u  == last'.user
             id == last'.arg
             book == last'.op = "delete_study_book"
             existed == IF book THEN StudyBookGetById(study_books, id, u) # NoEntity
                        ELSE QuestionGetById(study_books, questions, id, u) # NoEntity
         IN  IF existed
             THEN /\ last'.status = "ok"
                  /\ IF book THEN StudyBookGetById(study_books', id, u) = NoEntity
                     ELSE QuestionGetById(study_books', questions', id, u) = NoEntity
             ELSE /\ last'.status = "not_found"
                  /\ UNCHANGED store]_vars

\* C34: creating a user whose normalized email belongs to a stored user
\* fails with a validation failure (the one that names the field), and no
\* user is added
C34_DuplicateEmailRejected ==
    [][ (/\ last'.op = "signup"
         /\ UserGetByEmail(user_rows, NormalizeEmail(last'.arg)) # {})
           => /\ last'.status = "validation_error"
              /\ user_rows' = user_rows ]_vars

\* C40: a request that arrives with the id of a user, stored or not, is
\* answered with that id, and exactly one user with the id is stored
C40_FirstContactCreatesOnce ==
    (last.op = "get_current_user_id" /\ last.arg[2] = "header") =>
        /\ last.status = "ok"
        /\ Cardinality({row \in user_rows : row.id = last.user}) = 1

C38_OwnerAndBookFixed ==
    [][ /\ \A b \in study_books : \A b2 \in study_books' :
              b2.id = b.id => b2.user_id = b.user_id
        /\ \A q \in questions : \A q2 \in questions' :
              q2.id = q.id => q2.study_book_id = q.study_book_id ]_vars

C38_Witness ==
    /\ last.op = "repository_update_study_book"
    /\ last.status = "ok"
    /\ \E b \in study_books :
          /\ b.id = last.arg
          /\ b.title = last.out[2].title
          /\ b.user_id = last.user
    /\ \E b \in study_books : b.user_id # last.user

\* C31: an update or a delete of a study book or question, whatever ran
\* before it (a delete or an update of the same entity included), either
\* takes effect or reports not-found because the entity is not, or no
\* longer, the requester's; it ends in no other error
C31_RaceReportsNotFound ==
    [][ /\ last'.op \in {"update_study_book", "delete_study_book"} =>
              last'.status =
                 IF StudyBookGetById(study_books, last'.arg, last'.user) # NoEntity
                 THEN "ok" ELSE "not_found"
        /\ last'.op \in {"update_question", "delete_question"} =>
              last'.status =
                 IF QuestionGetById(study_books, questions, last'.arg, last'.user)
                      # NoEntity
                 THEN "ok" ELSE "not_found" ]_vars

\* C32: every update of an entity the requester owns succeeds, also when it
\* follows another update of the same entity, and the stored entity then
\* carries the values this update gave
C32_LastWriterWins ==
    [][ /\ (/\ last'.op = "update_study_book"
            /\ StudyBookGetById(study_books, last'.arg, last'.user) # NoEntity)
             => /\ last'.status = "ok"
                /\ \E b \in study_books' :
                      /\ b.id = last'.arg
                      /\ last'.out[2].title \in {Absent, Given(b.title)}
                      /\ last'.out[2].description \in {Absent, b.description}
        /\ (/\ last'.op = "update_question"
            /\ QuestionGetById(study_books, questions, last'.arg, last'.user)
                 # NoEntity)
             => /\ last'.status = "ok"
                /\ \E q \in questions' :
                      /\ q.id = last'.arg
                      /\ last'.out[2].question \in {Absent, Given(q.question)}
                      /\ last'.out[2].answer \in {Absent, Given(q.answer)} ]_vars

\* C37: every stored question is in a stored study book, and a question
\* that has just been created is in a study book of the user who created it
C37_ItemInOwnedBook ==
    /\ \A q \in questions : \E b \in study_books : b.id = q.study_book_id
    /\ (last.op = "create_question" /\ last.status = "ok") =>
          \A q \in questions :
             q.id = last.arg =>
                StudyBookGetById(study_books, q.study_book_id, last.user) # NoEntity

C36_LogsOfOwnedItem ==
    (last.op = "get_typing_logs" /\ last.arg.filter # Absent) =>
       \A i \in 1..Len(last.out.items) :
          /\ last.out.items[i].user_id = last.user
          /\ QuestionGetById(study_books, questions, ValueOf(last.arg.filter),
                             last.user) # NoEntity

\* C39: total_count of a page of typing logs or learning events is the
\* number of rows that match the filter of the request (the user, and the
\* question or the action when given), and has_next says whether rows
\* that match lie beyond the page
C39_CountOfFilteredSet ==
    /\ last.op = "get_typing_logs" =>
          LET matching == {l \in typing_logs :
                             /\ l.user_id = last.user
                             /\ last.arg.filter \in {Absent, l.question_id}}
              shown == (last.arg.page - 1) * last.arg.limit + Len(last.out.items)
          IN  /\ last.out.total_count = Cardinality(matching)
              /\ last.out.has_next = (shown < Cardinality(matching))
    /\ last.op = "get_learning_events" =>
          LET matching == {e \in learning_events :
                             /\ e.user_id = last.user
                             /\ last.arg.filter \in {Absent, Given(e.action)}}
              shown == (last.arg.page - 1) * last.arg.limit + Len(last.out.items)
          IN  /\ last.out.total_count = Cardinality(matching)
              /\ last.out.has_next = (shown < Cardinality(matching))
====
